---- MODULE Spec2Model ----
(***************************************************************************)
(* State-machine model of the persistence layer and automated report       *)
(* engine of WTL_Analysis (database_manager.py) together with the store    *)
(* sequence of its callers (main.py).                                      *)
(*                                                                         *)
(* Spec takes every call as one step of a single run after another.        *)
(* SpecConcurrent takes the report call query by query, with the stores of *)
(* other runs committing in between.  SpecRun takes one analysis run of    *)
(* main.py step by step, each step returning or raising.                   *)
(*                                                                         *)
(* Units.  A DataFrame cell is a float: money is counted in mills          *)
(* (1/1000 yuan), a margin in 1/10000 of a percent.  A DECIMAL(n,2) column *)
(* holds hundredths: money in cents, a margin in 1/100 of a percent.       *)
(* Hours are whole hours on both sides.  Dates are day numbers.            *)
(***************************************************************************)
EXTENDS Integers, Sequences, FiniteSets, TLC

VARIABLES financial_summary,   \* table financial_summary, in id order
          department_summary,  \* table department_summary, in id order
          report_log,          \* table report_log, in id order
          today,               \* the date datetime.now() falls on
          result,              \* outcome of the most recent call
          pc,                  \* query the report call in progress runs next, or 0
          report,              \* the report that call has filled so far
          read_view,           \* what the connection's open transaction reads
          uncommitted,         \* rows executed on the connection, not yet committed
          run                  \* the analysis run under way: its step and its trace

vars == <<financial_summary, department_summary, report_log, today, result,
          pc, report, read_view, uncommitted, run>>

\* The state of the report call and of the transaction it reads in.
call == <<pc, report, read_view>>

(***************************************************************************)
(* Bounds of the model.                                                    *)
(***************************************************************************)
MaxDate == 2        \* days the clock can reach
MaxRows == 2        \* a store starts only while financial_summary is shorter
MaxLog == 1         \* entries report_log can hold
DaysPerMonth == 2   \* length of a calendar month, in days

Dates == 1..MaxDate
NoneDate == 0       \* the Python value None passed for a date

(***************************************************************************)
(* Small arithmetic helpers.                                               *)
(***************************************************************************)
\* Variant: the sign kept.
AbsSigned(x) == x

Abs(x) == IF x < 0 THEN -x ELSE x

RECURSIVE SumSeq(_)
SumSeq(s) == IF s = <<>> THEN 0 ELSE Head(s) + SumSeq(Tail(s))

\* x / k rounded to the nearest integer, halves away from zero: the rounding
\* MySQL applies when an exact-value literal is stored in a DECIMAL column.
RoundDiv(x, k) ==
    IF x >= 0 THEN (x + (k \div 2)) \div k
              ELSE -(((-x) + (k \div 2)) \div k)

ToDecimal2(x) == RoundDiv(x, 10)         \* mills -> cents: DECIMAL(15,2), DECIMAL(10,2)
MarginToDecimal2(x) == RoundDiv(x, 100)  \* 1e-4 percent -> 1e-2 percent: DECIMAL(5,2)

\* SQL NULL and the float NaN pandas uses for a missing number: a value of the
\* numeric domain that no computation here produces.
Null == -999999999

(***************************************************************************)
(* Configuration (config.py): department salaries and yearly work hours.   *)
(***************************************************************************)
WORK_HOURS_PER_YEAR == 2000
DEPARTMENT_SALARIES ==                                          \* mills per year
    [Eng |-> 120008000, Ops |-> 80008000, D03 |-> 80008000, D04 |-> 80008000,
     D05 |-> 80008000, D06 |-> 80008000, D07 |-> 80008000, D08 |-> 80008000,
     D09 |-> 80008000, D10 |-> 80008000, D11 |-> 80008000]
DepartmentOrder ==
    <<"Eng", "Ops", "D03", "D04", "D05", "D06", "D07", "D08", "D09", "D10", "D11">>
HourlyRate(dept) == DEPARTMENT_SALARIES[dept] \div WORK_HOURS_PER_YEAR

(***************************************************************************)
(* Metric model (data_processor.py).  A run's raw records are the project  *)
(* master records, a sequence of [code, type, status, contract, purchase], *)
(* and the work-hour entries, a set of [code, department, hours].          *)
(***************************************************************************)
RECURSIVE SumHours(_)
SumHours(entries) ==
    IF entries = {} THEN 0
    ELSE LET e == CHOOSE x \in entries : TRUE
         IN  e.hours + SumHours(entries \ {e})

RECURSIVE SumLabor(_)
SumLabor(entries) ==
    IF entries = {} THEN 0
    ELSE LET e == CHOOSE x \in entries : TRUE
         IN  e.hours * HourlyRate(e.department) + SumLabor(entries \ {e})

\* profit / contract * 100 in 1e-4 percent, i.e. profit * 1000 / (contract in
\* whole yuan), the division carried out in two stages to stay within 32 bits.
Margin(profit, contract) ==
    LET yuan == contract \div 1000
    IN  (profit \div yuan) * 1000 + ((profit % yuan) * 1000) \div yuan

FinancialRow(project, work_hours) ==
    LET mine   == {e \in work_hours : e.code = project.code}
        hours  == SumHours(mine)
        labor  == SumLabor(mine)
        total  == project.purchase + labor
        profit == project.contract - total
    IN  [ProjectCode     |-> project.code,
         ProjectType     |-> project.type,
         Status          |-> project.status,
         ContractPrice   |-> project.contract,
         PurchaseCost    |-> project.purchase,
         LaborCost       |-> labor,
         TotalCost       |-> total,
         Profit          |-> profit,
         ProfitMargin    |-> IF project.contract > 0
                             THEN Margin(profit, project.contract)
                             ELSE Null,
         TotalHours      |-> hours,
         EfficiencyScore |-> IF hours > 0 THEN profit \div hours ELSE 0]

calculate_all_metrics(projects, work_hours) ==
    [i \in 1..Len(projects) |-> FinancialRow(projects[i], work_hours)]

DepartmentRow(dept, work_hours) ==
    LET mine == {e \in work_hours : e.department = dept}
    IN  [Department     |-> dept,
         TotalHours     |-> SumHours(mine),
         TotalLaborCost |-> SumHours(mine) * HourlyRate(dept),
         NumProjects    |-> Cardinality({e.code : e \in mine}),
         NumTasks       |-> Cardinality(mine),
         HourlyRate     |-> HourlyRate(dept)]

department_summary_of(work_hours) ==
    LET present == SelectSeq(DepartmentOrder,
                             LAMBDA d : \E e \in work_hours : e.department = d)
    IN  [i \in 1..Len(present) |-> DepartmentRow(present[i], work_hours)]

(***************************************************************************)
(* Input domains: the raw records a run can load.  A profile is            *)
(* <<contract, purchase, hours>>; project P1 is a GS project worked by Eng,*)
(* project P2 an ISS project worked by Ops.                                *)
(***************************************************************************)
ProfileSound    == <<1000000, 300000, 2>>  \* profitable, above the cutoff
ProfileLoss     == << 500000, 600004, 1>>  \* loss, sub-cent purchase cost
ProfileSlow     == <<1000000, 900000, 1>>  \* profitable, below the cutoff
ProfileLossIdle == << 500000, 600000, 0>>  \* loss, no hours logged
ProfileFree     == <<      0, 300000, 1>>  \* nothing charged: no margin

GsProfiles  == {ProfileSound, ProfileLoss, ProfileSlow, ProfileLossIdle}
GsStatuses  == {"Success", "Unknown"}

Project(code, type, status, p) ==
    [code |-> code, type |-> type, status |-> status, contract |-> p[1], purchase |-> p[2]]

Work(code, dept, p) ==
    IF p[3] > 0 THEN {[code |-> code, department |-> dept, hours |-> p[3]]} ELSE {}

\* A DataFrame without the LaborCost column.
DropColumn(row, key) == [k \in (DOMAIN row) \ {key} |-> row[k]]
DropLaborCost(df) == [i \in 1..Len(df) |-> DropColumn(df[i], "LaborCost")]

Run(projects, work_hours) ==
    [financial_summary_df  |-> calculate_all_metrics(projects, work_hours),
     department_summary_df |-> department_summary_of(work_hours)]

IssCases == {<<"Unknown", ProfileSound>>, <<"Unknown", ProfileLoss>>,
             <<"Success", ProfileSound>>}

IssRuns == {Run(<<Project("P2", "ISS", c[1], c[2])>>, Work("P2", "Ops", c[2])) :
                c \in IssCases}
BothRuns == {Run(<<Project("P1", "GS", st, p),
                   Project("P2", "ISS", "Unknown", ProfileSound)>>,
                 Work("P1", "Eng", p) \cup Work("P2", "Ops", ProfileSound)) :
                st \in GsStatuses, p \in GsProfiles}
NoLaborRuns == {[r EXCEPT !.financial_summary_df = DropLaborCost(@)] :
                   r \in {Run(<<Project("P2", "ISS", "Unknown", ProfileLoss)>>,
                              Work("P2", "Ops", ProfileLoss))}}

\* A run with two projects for which nothing is charged (contract_price 0),
\* one GS and one ISS, next to a sound GS project.
FreeRuns == {Run(<<Project("P1", "GS", "Success", ProfileSound),
                   Project("P3", "GS", "Success", ProfileFree),
                   Project("P2", "ISS", "Unknown", ProfileFree)>>,
                 Work("P1", "Eng", ProfileSound) \cup Work("P3", "Eng", ProfileFree)
                    \cup Work("P2", "Ops", ProfileFree))}

\* The run of a division with eleven departments: a GS project (contract
\* 1,000,000, total cost 700,000, 200 hours, Success) and an ISS project
\* (contract 500,000, total cost 600,000, 100 hours).
DivisionHours == [Ops |-> 56, D03 |-> 9, D04 |-> 8, D05 |-> 7, D06 |-> 6,
                  D07 |-> 5, D08 |-> 4, D09 |-> 3, D10 |-> 1, D11 |-> 1]
DivisionWork ==
    {[code |-> "P1", department |-> "Eng", hours |-> 200]}
    \cup {[code |-> "P2", department |-> d, hours |-> DivisionHours[d]] :
             d \in DOMAIN DivisionHours}
DivisionRun ==
    Run(<<[code |-> "P1", type |-> "GS", status |-> "Success",
           contract |-> 1000000000, purchase |-> 687999200],
          [code |-> "P2", type |-> "ISS", status |-> "Unknown",
           contract |-> 500000000, purchase |-> 595999600]>>,
        DivisionWork)

\* A run with two projects that earn a few cents and log no hours: a GS
\* project with a profit of 0.10 and an ISS project with a profit of 0.20.
ProfileDime    == <<1000000, 999900, 0>>
ProfileTwoDime == <<1000000, 999800, 0>>
DimeRun == Run(<<Project("P1", "GS", "Success", ProfileDime),
                 Project("P2", "ISS", "Unknown", ProfileTwoDime)>>, {})

\* Frames that lack a column the preparation loops require: the financial
\* frame without TotalCost, the department frame without NumTasks.
MalformedRuns ==
    LET r == Run(<<Project("P2", "ISS", "Unknown", ProfileSound)>>,
                 Work("P2", "Ops", ProfileSound))
    IN  {[r EXCEPT !.financial_summary_df =
                      [i \in 1..Len(@) |-> DropColumn(@[i], "TotalCost")]],
         [r EXCEPT !.department_summary_df =
                      [i \in 1..Len(@) |-> DropColumn(@[i], "NumTasks")]]}

Runs == IssRuns \cup BothRuns \cup NoLaborRuns \cup FreeRuns \cup {DivisionRun, DimeRun}

(***************************************************************************)
(* DataFrame row access: row.get(key, default).                            *)
(***************************************************************************)
Get(row, key, default) == IF key \in DOMAIN row THEN row[key] ELSE default

(***************************************************************************)
(* insert_financial_summary: the tuples of data_to_insert as the table     *)
(* stores them.                                                            *)
(***************************************************************************)
FinancialTuple(row, report_date) ==
    [report_date      |-> report_date,
     project_code     |-> row.ProjectCode,
     project_type     |-> row.ProjectType,
     status           |-> Get(row, "Status", "Unknown"),
     contract_price   |-> ToDecimal2(row.ContractPrice),
     purchase_cost    |-> ToDecimal2(row.PurchaseCost),
     labor_cost       |-> ToDecimal2(Get(row, "LaborCost", 0)),
     total_cost       |-> ToDecimal2(row.TotalCost),
     profit           |-> ToDecimal2(row.Profit),
     profit_margin    |-> IF row.ProfitMargin = Null THEN Null
                          ELSE MarginToDecimal2(row.ProfitMargin),
     total_hours      |-> Get(row, "TotalHours", 0),
     efficiency_score |-> ToDecimal2(Get(row, "EfficiencyScore", 0))]

FinancialData(df, report_date) ==
    [i \in 1..Len(df) |-> FinancialTuple(df[i], report_date)]

\* float(row['ProfitMargin']) of a missing margin is the float nan.  The
\* connector sends it as NULL or as the bare word nan, depending on its
\* version and implementation; MySQL answers the word with error 1054, which
\* the connector raises as ProgrammingError, an Error.
NanRenderings == {"NULL", "nan"}
HasNan(df) == \E i \in 1..Len(df) : df[i].ProfitMargin = Null
Rejected(df, nan_as) == nan_as = "nan" /\ HasNan(df)

\* The columns the preparation loops read with row[...]: a frame that lacks
\* one raises KeyError there, which is not a MySQL Error.  (ProjectName, read
\* the same way, is not part of the rows of this model.)
FinancialColumns == {"ProjectCode", "ProjectType", "ContractPrice", "PurchaseCost",
                     "TotalCost", "Profit", "ProfitMargin"}
DepartmentColumns == {"TotalHours", "TotalLaborCost", "NumProjects", "NumTasks",
                      "HourlyRate"}
PrepareRaises(df, columns) == \E i \in 1..Len(df) : ~(columns \subseteq DOMAIN df[i])

\* The two tables as the connection has them: the committed rows, and the
\* rows its transaction has executed and neither committed nor rolled back.
NoRows == [financial_summary |-> <<>>, department_summary |-> <<>>]
Database(fin, dept, pending) ==
    [financial_summary |-> fin, department_summary |-> dept, uncommitted |-> pending]

\* cursor.executemany(insert_query, data_to_insert)
Execute(db, table, rows) == [db EXCEPT !.uncommitted[table] = @ \o rows]

\* connection.commit()
Commit(db) ==
    [financial_summary  |-> db.financial_summary \o db.uncommitted.financial_summary,
     department_summary |-> db.department_summary \o db.uncommitted.department_summary,
     uncommitted        |-> NoRows]

\* Variant: the except clause raises without rolling back.
RollbackMissing(db) == db

\* connection.rollback()
Rollback(db) == [db EXCEPT !.uncommitted = NoRows]

\* Where the Error of a failing insert comes: in executemany, the statement
\* having inserted nothing, or in commit, all rows executed.
ErrorSteps == {"executemany", "commit"}

\* The database after the call: executemany + commit, or rollback on Error;
\* an exception of the preparation loop leaves the method before anything
\* is executed.
insert_financial_summary(db, df, report_date, fails, step) ==
    IF PrepareRaises(df, FinancialColumns) THEN db
    ELSE IF fails /\ step = "executemany" THEN Rollback(db)
    ELSE IF fails
    THEN Rollback(Execute(db, "financial_summary", FinancialData(df, report_date)))
    ELSE Commit(Execute(db, "financial_summary", FinancialData(df, report_date)))

DepartmentTuple(row, report_date) ==
    [report_date      |-> report_date,
     department_name  |-> row.Department,
     total_hours      |-> row.TotalHours,
     total_labor_cost |-> ToDecimal2(row.TotalLaborCost),
     num_projects     |-> row.NumProjects,
     num_tasks        |-> row.NumTasks,
     avg_hourly_rate  |-> ToDecimal2(row.HourlyRate)]

DepartmentData(df, report_date) ==
    [i \in 1..Len(df) |-> DepartmentTuple(df[i], report_date)]

insert_department_summary(db, df, report_date, fails, step) ==
    IF PrepareRaises(df, DepartmentColumns) THEN db
    ELSE IF fails /\ step = "executemany" THEN Rollback(db)
    ELSE IF fails
    THEN Rollback(Execute(db, "department_summary", DepartmentData(df, report_date)))
    ELSE Commit(Execute(db, "department_summary", DepartmentData(df, report_date)))

(***************************************************************************)
(* generate_automated_report: the six queries and the report they fill.    *)
(***************************************************************************)
\* Variant: the end of the range left out.
BetweenEndExclusive(report_date, start_date, end_date) ==
    start_date <= report_date /\ report_date < end_date

\* WHERE report_date BETWEEN start_date AND end_date
Between(report_date, start_date, end_date) ==
    start_date <= report_date /\ report_date <= end_date

InRange(table, start_date, end_date) ==
    SelectSeq(table, LAMBDA r : Between(r.report_date, start_date, end_date))

Column(rows, key) == [i \in 1..Len(rows) |-> rows[i][key]]
Values(rows, key) == {rows[i][key] : i \in 1..Len(rows)}

\* AVG over a DECIMAL(n,2) column: NULLs are skipped, the quotient carries four
\* more decimals (1e-6 units), and no non-NULL value gives NULL.
\* Variant: a NULL counts as a value of zero.
AvgNullAsZero(rows, key) ==
    IF rows = <<>> THEN Null
    ELSE RoundDiv(SumSeq([i \in 1..Len(rows) |->
                             IF rows[i][key] = Null THEN 0 ELSE rows[i][key]]) * 10000,
                  Len(rows))

Avg(rows, key) ==
    LET vals == SelectSeq(Column(rows, key), LAMBDA v : v # Null)
    IN  IF vals = <<>> THEN Null ELSE RoundDiv(SumSeq(vals) * 10000, Len(vals))

(***************************************************************************)
(* float(x) of a DECIMAL(n,2) value of c cents: the binary floating-point  *)
(* number with 53 significant digits nearest to c/100.  A float is a sign  *)
(* and the digits of its magnitude in fixed point, IntBits digits before   *)
(* and 8 * FracBytes digits after the point, most significant first.       *)
(***************************************************************************)
IntBits == 31
FracBytes == 8
MantissaBits == 53

\* the binary digits of n, most significant first
Binary(n, width) == [i \in 1..width |-> (n \div 2^(width - i)) % 2]

\* the binary expansion of r/100, eight digits a step
RECURSIVE FracDigits(_, _)
FracDigits(r, steps) ==
    IF steps = 0 THEN <<>>
    ELSE Binary((r * 256) \div 100, 8) \o FracDigits((r * 256) % 100, steps - 1)

\* what of r/100 is left after that many steps
RECURSIVE FracRest(_, _)
FracRest(r, steps) == IF steps = 0 THEN r ELSE FracRest((r * 256) % 100, steps - 1)

\* the place of the leading 1, 0 if there is none
Lead(digits) ==
    IF \E i \in 1..Len(digits) : digits[i] = 1
    THEN CHOOSE i \in 1..Len(digits) : digits[i] = 1 /\ \A j \in 1..(i - 1) : digits[j] = 0
    ELSE 0

\* one unit added at place at
Increment(kept, at) ==
    LET z == CHOOSE i \in 1..at : kept[i] = 0 /\ \A j \in (i + 1)..at : kept[j] = 1
    IN  [i \in 1..Len(kept) |->
            IF i = z THEN 1 ELSE IF i > z /\ i <= at THEN 0 ELSE kept[i]]

\* round to nearest, ties to even; more: the value has digits beyond the last
RoundNearestEven(d, more) ==
    LET last == Lead(d) + MantissaBits - 1
    IN  IF Lead(d) = 0 \/ last >= Len(d) THEN d
        ELSE LET cut  == [i \in 1..Len(d) |-> IF i <= last THEN d[i] ELSE 0]
                 rest == more \/ \E i \in (last + 2)..Len(d) : d[i] = 1
             IN  IF d[last + 1] = 1 /\ (rest \/ d[last] = 1)
                 THEN Increment(cut, last) ELSE cut

ToFloat(c) ==
    LET expansion == Binary(Abs(c) \div 100, IntBits) \o FracDigits(Abs(c) % 100, FracBytes)
    IN  [neg    |-> c < 0,
         digits |-> RoundNearestEven(expansion, FracRest(Abs(c) % 100, FracBytes) # 0)]

\* Variant: an aggregate that is NULL is passed on as it is.
OrZeroKeepsNull(x) == x

\* "float(x) if x else 0" / "int(x) if x else 0" on an aggregate

OrZero(x) == IF x = Null THEN 0 ELSE x

\* Variant: COUNT(*) in place of COUNT(DISTINCT project_code).
SummaryQueryCountRows(rows) ==
    [total_projects    |-> Len(rows),
     total_revenue     |-> SumSeq(Column(rows, "contract_price")),
     total_cost        |-> SumSeq(Column(rows, "total_cost")),
     total_profit      |-> SumSeq(Column(rows, "profit")),
     avg_profit_margin |-> OrZero(Avg(rows, "profit_margin")),
     total_hours       |-> SumSeq(Column(rows, "total_hours"))]

SummaryQuery(rows) ==
    [total_projects    |-> Cardinality(Values(rows, "project_code")),
     total_revenue     |-> SumSeq(Column(rows, "contract_price")),
     total_cost        |-> SumSeq(Column(rows, "total_cost")),
     total_profit      |-> SumSeq(Column(rows, "profit")),
     avg_profit_margin |-> OrZero(Avg(rows, "profit_margin")),
     total_hours       |-> SumSeq(Column(rows, "total_hours"))]

\* Variant: the aggregates taken over all rows instead of the rows of the group.
TypeQueryUngrouped(rows) ==
    [t \in Values(rows, "project_type") |->
        [count        |-> Len(rows),
         total_profit |-> SumSeq(Column(rows, "profit")),
         avg_margin   |-> Avg(rows, "profit_margin")]]

\* Variant: COUNT(DISTINCT project_code) in place of COUNT(*).
TypeQueryDistinctCount(rows) ==
    [t \in Values(rows, "project_type") |->
        LET grp == SelectSeq(rows, LAMBDA r : r.project_type = t)
        IN  [count        |-> Cardinality(Values(grp, "project_code")),
             total_profit |-> SumSeq(Column(grp, "profit")),
             avg_margin   |-> Avg(grp, "profit_margin")]]

TypeQuery(rows) ==
    [t \in Values(rows, "project_type") |->
        LET grp == SelectSeq(rows, LAMBDA r : r.project_type = t)
        IN  [count        |-> Len(grp),
             total_profit |-> SumSeq(Column(grp, "profit")),
             avg_margin   |-> Avg(grp, "profit_margin")]]

\* Variant: the project_type condition left out.
StatusFilterAnyType(r) == r.status # "Unknown"

StatusFilter(r) == r.project_type = "GS" /\ r.status # "Unknown"

StatusQuery(rows) ==
    LET gs == SelectSeq(rows, StatusFilter)
    IN  [s \in Values(gs, "status") |->
            LET grp == SelectSeq(gs, LAMBDA r : r.status = s)
            IN  [count      |-> Len(grp),
                 avg_margin |-> Avg(grp, "profit_margin")]]

\* float(row[3]) / float(row[2]) in the two breakdown loops raises on None
BreakdownRaises(breakdown) == \E k \in DOMAIN breakdown : breakdown[k].avg_margin = Null

TOP_LIMIT == 10

DeptGroup(rows, d) ==
    LET grp == SelectSeq(rows, LAMBDA r : r.department_name = d)
    IN  [department   |-> d,
         total_hours  |-> SumSeq(Column(grp, "total_hours")),
         total_cost   |-> SumSeq(Column(grp, "total_labor_cost")),
         avg_projects |-> Avg(grp, "num_projects")]

\* ORDER BY total_hours DESC over the groups: every order the clause admits
\* (groups with equal sums may come in either order).
RECURSIVE Orderings(_)
Orderings(groups) ==
    IF groups = {} THEN {<<>>}
    ELSE LET firsts == {g \in groups :
                           \A o \in groups : g.total_hours >= o.total_hours}
         IN  UNION {{<<g>> \o rest : rest \in Orderings(groups \ {g})} : g \in firsts}

\* Variant: the LIMIT clause left out.
DeptQueryResultsUnlimited(rows) ==
    Orderings({DeptGroup(rows, d) : d \in Values(rows, "department_name")})

\* GROUP BY department_name ORDER BY total_hours DESC LIMIT 10
DeptQueryResults(rows) ==
    LET groups == {DeptGroup(rows, d) : d \in Values(rows, "department_name")}
        n      == Cardinality(groups)
        k      == IF n < TOP_LIMIT THEN n ELSE TOP_LIMIT
    IN  {SubSeq(o, 1, k) : o \in Orderings(groups)}

LossFilter(r) == r.profit < 0

\* Variant: the alert needs more than one loss-making row.
LossAlertAboveOne(rows) ==
    LET loss == SelectSeq(rows, LossFilter)
    IN  IF Len(loss) > 1
        THEN <<[type     |-> "loss_making_projects",
                severity |-> "high",
                count    |-> Len(loss),
                amount   |-> Abs(SumSeq(Column(loss, "profit")))]>>
        ELSE <<>>

LossAlert(rows) ==
    LET loss == SelectSeq(rows, LossFilter)
    IN  IF Len(loss) > 0
        THEN <<[type     |-> "loss_making_projects",
                severity |-> "high",
                count    |-> Len(loss),
                amount   |-> Abs(SumSeq(Column(loss, "profit")))]>>
        ELSE <<>>

EFFICIENCY_CUTOFF == 10000     \* "efficiency_score < 100", in cents per hour

\* Variant: the total_hours condition left out.
LowEfficiencyFilterAnyHours(r) == r.efficiency_score < EFFICIENCY_CUTOFF

LowEfficiencyFilter(r) == r.efficiency_score < EFFICIENCY_CUTOFF /\ r.total_hours > 0

LowEfficiencyAlert(rows) ==
    LET low == SelectSeq(rows, LowEfficiencyFilter)
    IN  IF Len(low) > 0
        THEN <<[type     |-> "low_efficiency",
                severity |-> "medium",
                count    |-> Len(low),
                amount   |-> 0]>>
        ELSE <<>>

\* Variant: the second rule runs only when the first raised nothing.
AlertsFirstOnly(rows) ==
    IF LossAlert(rows) # <<>> THEN LossAlert(rows) ELSE LowEfficiencyAlert(rows)

\* "Generate alerts": both rules run, each appending to report['alerts'].
Alerts(rows) == LossAlert(rows) \o LowEfficiencyAlert(rows)

\* start_date / end_date defaults
MonthStart(d) == d - ((d - 1) % DaysPerMonth)
StartDate(start_date, now) == IF start_date = NoneDate THEN MonthStart(now) ELSE start_date
EndDate(end_date, now) == IF end_date = NoneDate THEN now ELSE end_date

\* Variant: the top_departments key is set only when the query returned rows.
ReportWithoutEmptySections(fin, top, start_date, end_date, now) ==
    IF top = <<>>
    THEN [report_period  |-> <<start_date, end_date>>,
          generated_at   |-> now,
          summary        |-> SummaryQuery(fin),
          trends         |-> <<>>,
          project_types  |-> TypeQuery(fin),
          project_status |-> StatusQuery(fin),
          alerts         |-> Alerts(fin)]
    ELSE [report_period   |-> <<start_date, end_date>>,
          generated_at    |-> now,
          summary         |-> SummaryQuery(fin),
          trends          |-> <<>>,
          project_types   |-> TypeQuery(fin),
          project_status  |-> StatusQuery(fin),
          top_departments |-> top,
          alerts          |-> Alerts(fin)]

Report(fin, top, start_date, end_date, now) ==
    [report_period   |-> <<start_date, end_date>>,
     generated_at    |-> now,
     summary         |-> SummaryQuery(fin),
     trends          |-> <<>>,
     project_types   |-> TypeQuery(fin),
     project_status  |-> StatusQuery(fin),
     top_departments |-> top,
     alerts          |-> Alerts(fin)]

(***************************************************************************)
(* log_report: the row INSERT INTO report_log adds.                        *)
(***************************************************************************)
LogEntry(report_type, file_path, summary, now) ==
    [report_type |-> report_type,
     report_date |-> now,
     file_path   |-> file_path,
     summary     |-> summary,
     created_at  |-> now]

\* Variant: the insert is never committed.
log_report_uncommitted(table, report_type, file_path, summary, now, fails) == table

log_report(table, report_type, file_path, summary, now, fails) ==
    IF fails THEN table ELSE Append(table, LogEntry(report_type, file_path, summary, now))

(***************************************************************************)
(* The outcome of a call: what the caller gets back.                       *)
(***************************************************************************)
NoReport == [report_period |-> <<0, 0>>]

Outcome(op, status, rep) ==
    [op |-> op, status |-> status, report |-> rep, raised_in |-> "nothing"]

\* No transaction open on the connection.
NoView == <<>>

\* The queries of generate_automated_report, in the order they are run.
Queries == <<"summary", "project_types", "project_status", "top_departments",
             "loss_making_projects", "low_efficiency">>

\* No analysis run is under way.
NotStarted ==
    [at           |-> "idle",    \* the step that runs next
     raised       |-> FALSE,     \* an exception is on its way to the caller
     trace        |-> <<>>,      \* the steps that ran, with their outcome
     open         |-> {},        \* the connections that are open
     loaded       |-> <<>>,      \* work_hours_df and projects_df, once loaded
     batch        |-> <<>>,      \* the two summary frames, once computed
     use_database |-> FALSE,
     report_date  |-> NoneDate]

TypeOK ==
    /\ today \in Dates
    /\ result.op \in {"none", "store", "report", "log"}
    /\ result.status \in {"ok", "error", "running"}
    /\ result.raised_in \in
          {"nothing", "insert_financial_summary", "insert_department_summary"}
    /\ Len(report_log) <= MaxLog
    /\ pc \in 0..Len(Queries)
    /\ pc = 0 => report = NoReport
    /\ Len(read_view) \in {0, 2}
    /\ uncommitted = NoRows

Init ==
    /\ financial_summary = <<>>
    /\ department_summary = <<>>
    /\ report_log = <<>>
    /\ today = 1
    /\ result = Outcome("none", "ok", NoReport)
    /\ pc = 0
    /\ report = NoReport
    /\ read_view = NoView
    /\ uncommitted = NoRows
    /\ run = NotStarted

\* The clock reaches the next day.
Tick ==
    /\ today < MaxDate
    /\ today' = today + 1
    /\ UNCHANGED <<financial_summary, department_summary, report_log, result, call,
                   uncommitted, run>>

\* Where a MySQL Error can end a store: nowhere, or in either insert.
FailurePoints == {"nowhere", "insert_financial_summary", "insert_department_summary"}

\* _database_operations, "Insert data": insert_financial_summary, then
\* insert_department_summary, both for today's date; an Error raised by the
\* first ends the run before the second is called.
FinancialInsertRaises(batch, nan_as, fails_at) ==
    \/ PrepareRaises(batch.financial_summary_df, FinancialColumns)
    \/ fails_at = "insert_financial_summary"
    \/ Rejected(batch.financial_summary_df, nan_as)
DepartmentInsertRaises(batch, fails_at) ==
    \/ PrepareRaises(batch.department_summary_df, DepartmentColumns)
    \/ fails_at = "insert_department_summary"

\* The database after the two calls.
Stored(db, batch, report_date, nan_as, fails_at, step) ==
    LET fin_fails == \/ fails_at = "insert_financial_summary"
                     \/ Rejected(batch.financial_summary_df, nan_as)
        after     == insert_financial_summary(db, batch.financial_summary_df, report_date,
                                              fin_fails, step)
    IN  IF FinancialInsertRaises(batch, nan_as, fails_at) THEN after
        ELSE insert_department_summary(after, batch.department_summary_df, report_date,
                                       fails_at = "insert_department_summary", step)

StoreSummaries(batch, nan_as, fails_at, step) ==
    LET db == Stored(Database(financial_summary, department_summary, uncommitted),
                     batch, today, nan_as, fails_at, step)
    IN  /\ Len(financial_summary) < MaxRows
        \* the rendering of nan is an input only where there is a nan to render
        /\ nan_as = "nan" => HasNan(batch.financial_summary_df)
        \* the step of the Error is an input only where there is an Error
        /\ step = "commit" => fails_at # "nowhere"
        /\ financial_summary' = db.financial_summary
        /\ department_summary' = db.department_summary
        /\ uncommitted' = db.uncommitted
        \* the exception the caller gets comes from the call that raised it
        /\ result' =
              IF FinancialInsertRaises(batch, nan_as, fails_at)
              THEN [Outcome("store", "error", NoReport)
                       EXCEPT !.raised_in = "insert_financial_summary"]
              ELSE IF DepartmentInsertRaises(batch, fails_at)
              THEN [Outcome("store", "error", NoReport)
                       EXCEPT !.raised_in = "insert_department_summary"]
              ELSE Outcome("store", "ok", NoReport)
        /\ UNCHANGED <<report_log, today, call, run>>

\* Variant: the call enters the report it returns into report_log.
GenerateAutomatedReportLogged(start_date, end_date) ==
    LET s   == StartDate(start_date, today)
        e   == EndDate(end_date, today)
        fin == InRange(financial_summary, s, e)
        dep == InRange(department_summary, s, e)
    IN  /\ ~BreakdownRaises(TypeQuery(fin))
        /\ ~BreakdownRaises(StatusQuery(fin))
        /\ \E top \in DeptQueryResults(dep) :
              result' = Outcome("report", "ok", Report(fin, top, s, e, today))
        /\ report_log' = log_report(report_log, "daily_summary", "reports/daily_summary.txt",
                                    SummaryQuery(fin), today, FALSE)
        /\ UNCHANGED <<financial_summary, department_summary, today, call, uncommitted, run>>

\* A call that returns the report.
GenerateAutomatedReport(start_date, end_date) ==
    LET s   == StartDate(start_date, today)
        e   == EndDate(end_date, today)
        fin == InRange(financial_summary, s, e)
        dep == InRange(department_summary, s, e)
    IN  /\ ~BreakdownRaises(TypeQuery(fin))
        /\ ~BreakdownRaises(StatusQuery(fin))
        /\ \E top \in DeptQueryResults(dep) :
              result' = Outcome("report", "ok", Report(fin, top, s, e, today))
        /\ UNCHANGED <<financial_summary, department_summary, report_log, today, call,
                       uncommitted, run>>

\* A call in which a query raises a MySQL Error, or a breakdown loop raises:
\* the exception leaves the method and no report is returned.
GenerateAutomatedReportFails(start_date, end_date) ==
    /\ result' = Outcome("report", "error", NoReport)
    /\ UNCHANGED <<financial_summary, department_summary, report_log, today, call,
                   uncommitted, run>>

\* The ranges callers ask for: both dates given, or both left to default.
Ranges == (Dates \X Dates) \cup {<<NoneDate, NoneDate>>}

\* main(): log_report('daily_summary', path, report['summary'])
ReportTypes == {"daily_summary"}
FilePaths == {"reports/daily_summary.txt"}

\* The commit of log_report commits what the connection's transaction holds,
\* its rollback discards it.
LogReport(report_type, file_path, fails) ==
    LET db  == Database(financial_summary, department_summary, uncommitted)
        end == IF fails THEN Rollback(db) ELSE Commit(db)
    IN  /\ result.op = "report" /\ result.status = "ok"
        /\ Len(report_log) < MaxLog
        /\ report_log' = log_report(report_log, report_type, file_path,
                                    result.report.summary, today, fails)
        /\ financial_summary' = end.financial_summary
        /\ department_summary' = end.department_summary
        /\ uncommitted' = end.uncommitted
        /\ result' = Outcome("log", IF fails THEN "error" ELSE "ok", NoReport)
        /\ UNCHANGED <<today, call, run>>

Next ==
    \/ Tick
    \/ \E batch \in Runs \cup MalformedRuns, nan_as \in NanRenderings,
          fails_at \in FailurePoints, step \in ErrorSteps :
          StoreSummaries(batch, nan_as, fails_at, step)
    \/ \E r \in Ranges : GenerateAutomatedReport(r[1], r[2])
    \/ \E r \in Ranges : GenerateAutomatedReportFails(r[1], r[2])
    \/ \E t \in ReportTypes, p \in FilePaths, f \in BOOLEAN :
          LogReport(t, p, f)

Spec == Init /\ [][Next]_vars

(***************************************************************************)
(* The report call query by query, with the stores of other runs           *)
(* committing in between.  The connection has autocommit off and the       *)
(* method issues its six SELECTs without a commit, so they run in one      *)
(* transaction; the tables are InnoDB (no ENGINE clause) under the default *)
(* isolation level, where the first SELECT of a transaction fixes what the *)
(* later ones read.                                                        *)
(***************************************************************************)
\* Variant: every query reads what is committed at the time it runs.
ReadViewLatest(view, committed) == committed

\* What a query of the connection reads.
ReadView(view, committed) == IF view = NoView THEN committed ELSE view

\* report = {...}: the dictionary before the first query
EmptyReport(start_date, end_date, now) ==
    [report_period |-> <<start_date, end_date>>,
     generated_at  |-> now,
     summary       |-> <<>>,
     trends        |-> <<>>,
     alerts        |-> <<>>]

\* The dictionary after query q has run on rows fin; top is the result of
\* the department query.
Filled(rep, q, fin, top) ==
    CASE q = "summary"              -> [rep EXCEPT !.summary = SummaryQuery(fin)]
      [] q = "project_types"        -> ("project_types" :> TypeQuery(fin)) @@ rep
      [] q = "project_status"       -> ("project_status" :> StatusQuery(fin)) @@ rep
      [] q = "top_departments"      -> ("top_departments" :> top) @@ rep
      [] q = "loss_making_projects" -> [rep EXCEPT !.alerts = @ \o LossAlert(fin)]
      [] q = "low_efficiency"       -> [rep EXCEPT !.alerts = @ \o LowEfficiencyAlert(fin)]

\* float(None) in the loop over the rows of query q
LoopRaises(q, fin) ==
    \/ q = "project_types" /\ BreakdownRaises(TypeQuery(fin))
    \/ q = "project_status" /\ BreakdownRaises(StatusQuery(fin))

\* Variant: the except clause returns what has been filled so far.
OnErrorReturnReport(rep) == rep

\* except Error: log and raise, so the caller gets no report
OnError(rep) == NoReport

\* The call starts: defaults, the dictionary.  Both callers start it on a
\* connection whose last statement was a commit.
BeginReport(start_date, end_date) ==
    /\ pc = 0
    /\ read_view = NoView
    /\ pc' = 1
    /\ report' = EmptyReport(StartDate(start_date, today), EndDate(end_date, today), today)
    /\ result' = Outcome("report", "running", NoReport)
    /\ UNCHANGED <<financial_summary, department_summary, report_log, today, read_view,
                   uncommitted, run>>

\* The next query runs and its rows are put into the dictionary; after the
\* last one the dictionary is returned.
RunQuery ==
    LET view == ReadView(read_view, <<financial_summary, department_summary>>)
        s    == report.report_period[1]
        e    == report.report_period[2]
        fin  == InRange(view[1], s, e)
        dep  == InRange(view[2], s, e)
    IN  /\ pc > 0
        /\ ~LoopRaises(Queries[pc], fin)
        /\ read_view' = view
        /\ \E top \in DeptQueryResults(dep) :
              LET filled == Filled(report, Queries[pc], fin, top)
              IN  IF pc < Len(Queries)
                  THEN /\ pc' = pc + 1
                       /\ report' = filled
                       /\ UNCHANGED result
                  ELSE /\ pc' = 0
                       /\ report' = NoReport
                       /\ result' = Outcome("report", "ok", filled)
        /\ UNCHANGED <<financial_summary, department_summary, report_log, today,
                       uncommitted, run>>

\* The next query raises a MySQL Error, or the loop over its rows raises.
QueryFails ==
    /\ pc > 0
    /\ pc' = 0
    /\ report' = NoReport
    /\ result' = Outcome("report", "error", OnError(report))
    /\ UNCHANGED <<financial_summary, department_summary, report_log, today, read_view,
                   uncommitted, run>>

\* finally: disconnect(); the next run works on a connection of its own.
Disconnect ==
    /\ pc = 0
    /\ read_view # NoView
    /\ read_view' = NoView
    /\ uncommitted' = NoRows
    /\ UNCHANGED <<financial_summary, department_summary, report_log, today, result,
                   pc, report, run>>

\* The runs that store while the report call is under way.
ConcurrentRuns ==
    {Run(<<Project("P2", "ISS", "Unknown", ProfileLoss)>>, Work("P2", "Ops", ProfileLoss)),
     Run(<<Project("P1", "GS", "Success", ProfileSlow),
           Project("P2", "ISS", "Unknown", ProfileSound)>>,
         Work("P1", "Eng", ProfileSlow) \cup Work("P2", "Ops", ProfileSound))}

\* Another run, on a connection of its own, stores its two batches.
ConcurrentStore(batch, fails_at) ==
    LET db == Stored(Database(financial_summary, department_summary, NoRows),
                     batch, today, "NULL", fails_at, "executemany")
    IN  /\ Len(financial_summary) < MaxRows
        /\ financial_summary' = db.financial_summary
        /\ department_summary' = db.department_summary
        /\ financial_summary' # financial_summary
        /\ UNCHANGED <<report_log, today, result, call, uncommitted, run>>

NextConcurrent ==
    \/ Tick
    \/ \E batch \in ConcurrentRuns, fails_at \in FailurePoints :
          ConcurrentStore(batch, fails_at)
    \/ \E r \in Ranges : BeginReport(r[1], r[2])
    \/ RunQuery
    \/ QueryFails
    \/ Disconnect

SpecConcurrent == Init /\ [][NextConcurrent]_vars

(***************************************************************************)
(* The analysis run step by step (main.py): run_complete_analysis calls    *)
(* its steps one after the other; an exception of a step ends the run and  *)
(* reaches the caller, those of _database_operations through its finally   *)
(* clause, which disconnects.                                              *)
(***************************************************************************)
\* Variant: the automated report is generated before the department insert.
StepsReportEarly ==
    <<"_load_data", "_process_data", "_create_visualizations", "_generate_reports",
      "create_database", "connect", "create_tables", "insert_financial_summary",
      "generate_daily_report", "insert_department_summary", "write_report">>

\* The steps in the order of the code; the last seven are the statements of
\* the try block of _database_operations.
Steps ==
    <<"_load_data", "_process_data", "_create_visualizations", "_generate_reports",
      "create_database", "connect", "create_tables", "insert_financial_summary",
      "insert_department_summary", "generate_daily_report", "write_report">>

DatabaseSteps == {"create_database", "connect", "create_tables", "insert_financial_summary",
                  "insert_department_summary", "generate_daily_report", "write_report"}

Position(step) == CHOOSE i \in 1..Len(Steps) : Steps[i] = step

\* Where the run goes when step has returned: "if self.use_database" guards
\* _database_operations, whose try block ends in the finally clause.
After(step, use_database) ==
    IF step = "_generate_reports" /\ ~use_database THEN "done"
    ELSE IF Position(step) = Len(Steps) THEN "disconnect"
    ELSE Steps[Position(step) + 1]

Event(step, outcome) == [step |-> step, outcome |-> outcome]

Returned(r, step) ==
    [r EXCEPT !.trace = Append(@, Event(step, "ok")),
              !.at    = After(step, r.use_database)]

\* Variant: the exception is logged and not raised again.
Swallowed(r, step, outcome) ==
    [r EXCEPT !.trace = Append(@, Event(step, outcome)),
              !.at    = IF step \in DatabaseSteps THEN "disconnect" ELSE "done"]

\* The step raises: the rest of the try block is skipped, and the exception
\* goes on to the caller ("except ...: log; raise").
Raised(r, step, outcome) ==
    [r EXCEPT !.trace  = Append(@, Event(step, outcome)),
              !.raised = TRUE,
              !.at     = IF step \in DatabaseSteps THEN "disconnect" ELSE "done"]

\* What the loader reads from the Excel file.
PipelineData ==
    {[projects   |-> <<Project("P2", "ISS", "Unknown", ProfileSound)>>,
      work_hours |-> Work("P2", "Ops", ProfileSound)],
     [projects   |-> <<Project("P1", "GS", "Success", ProfileSlow),
                       Project("P2", "ISS", "Unknown", ProfileLoss)>>,
      work_hours |-> Work("P1", "Eng", ProfileSlow) \cup Work("P2", "Ops", ProfileLoss)]}

Outcomes == {"ok", "error"}
ConnectOutcomes == {"ok", "connection failed", "error"}

\* The tables and the connection's transaction: what a step of the run that
\* executes no statement leaves alone.
stored == <<financial_summary, department_summary, report_log, uncommitted>>

StartRun(use_database) ==
    /\ run.at \in {"idle", "done"}
    /\ Len(financial_summary) < MaxRows
    /\ run' = [NotStarted EXCEPT !.at = Steps[1], !.use_database = use_database]
    /\ UNCHANGED <<stored, today, result, call>>

LoadData(data, outcome) ==
    /\ run.at = "_load_data"
    /\ run' = IF outcome = "ok"
              THEN Returned([run EXCEPT !.loaded = <<data>>], "_load_data")
              ELSE Raised(run, "_load_data", outcome)
    /\ UNCHANGED <<stored, today, result, call>>

ProcessData(outcome) ==
    /\ run.at = "_process_data"
    /\ run' = IF outcome = "ok"
              THEN Returned([run EXCEPT !.batch = <<Run(run.loaded[1].projects,
                                                         run.loaded[1].work_hours)>>],
                            "_process_data")
              ELSE Raised(run, "_process_data", outcome)
    /\ UNCHANGED <<stored, today, result, call>>

CreateVisualizations(outcome) ==
    /\ run.at = "_create_visualizations"
    /\ run' = IF outcome = "ok" THEN Returned(run, "_create_visualizations")
              ELSE Raised(run, "_create_visualizations", outcome)
    /\ UNCHANGED <<stored, today, result, call>>

GenerateReports(outcome) ==
    /\ run.at = "_generate_reports"
    /\ run' = IF outcome = "ok" THEN Returned(run, "_generate_reports")
              ELSE Raised(run, "_generate_reports", outcome)
    /\ UNCHANGED <<stored, today, result, call>>

\* create_database: a connection of its own, closed after the statement; when
\* the statement raises, the two close() calls are skipped.
CreateDatabase(outcome) ==
    /\ run.at = "create_database"
    /\ run' = CASE outcome = "ok" -> Returned(run, "create_database")
                [] outcome = "connection failed" -> Raised(run, "create_database", outcome)
                [] outcome = "error" ->
                      Raised([run EXCEPT !.open = @ \cup {"temp_conn"}],
                             "create_database", outcome)
    /\ UNCHANGED <<stored, today, result, call>>

\* connect: mysql.connector.connect, then connection.cursor()
Connect(outcome) ==
    /\ run.at = "connect"
    /\ run' = CASE outcome = "ok" ->
                      Returned([run EXCEPT !.open = @ \cup {"connection"}], "connect")
                [] outcome = "connection failed" -> Raised(run, "connect", outcome)
                [] outcome = "error" ->
                      Raised([run EXCEPT !.open = @ \cup {"connection"}], "connect", outcome)
    /\ UNCHANGED <<stored, today, result, call>>

CreateTables(outcome) ==
    /\ run.at = "create_tables"
    /\ run' = IF outcome = "ok" THEN Returned(run, "create_tables")
              ELSE Raised(run, "create_tables", outcome)
    /\ UNCHANGED <<stored, today, result, call>>

\* report_date = datetime.now()...; insert_financial_summary(df, report_date)
InsertFinancialSummary(fails, step) ==
    LET df == run.batch[1].financial_summary_df
        db == insert_financial_summary(
                  Database(financial_summary, department_summary, uncommitted),
                  df, today, fails, step)
        at_date == [run EXCEPT !.report_date = today]
    IN  /\ run.at = "insert_financial_summary"
        /\ step = "commit" => fails
        /\ financial_summary' = db.financial_summary
        /\ department_summary' = db.department_summary
        /\ uncommitted' = db.uncommitted
        /\ run' = IF fails \/ PrepareRaises(df, FinancialColumns)
                  THEN Raised(at_date, "insert_financial_summary", "error")
                  ELSE Returned(at_date, "insert_financial_summary")
        /\ UNCHANGED <<report_log, today, result, call>>

InsertDepartmentSummary(fails, step) ==
    LET df == run.batch[1].department_summary_df
        db == insert_department_summary(
                  Database(financial_summary, department_summary, uncommitted),
                  df, run.report_date, fails, step)
    IN  /\ run.at = "insert_department_summary"
        /\ step = "commit" => fails
        /\ financial_summary' = db.financial_summary
        /\ department_summary' = db.department_summary
        /\ uncommitted' = db.uncommitted
        /\ run' = IF fails \/ PrepareRaises(df, DepartmentColumns)
                  THEN Raised(run, "insert_department_summary", "error")
                  ELSE Returned(run, "insert_department_summary")
        /\ UNCHANGED <<report_log, today, result, call>>

\* generate_daily_report: generate_automated_report() with its default range,
\* then the text of the report.
GenerateDailyReport(fails) ==
    LET s   == StartDate(NoneDate, today)
        e   == EndDate(NoneDate, today)
        fin == InRange(financial_summary, s, e)
        dep == InRange(department_summary, s, e)
    IN  /\ run.at = "generate_daily_report"
        /\ IF fails \/ BreakdownRaises(TypeQuery(fin)) \/ BreakdownRaises(StatusQuery(fin))
           THEN /\ result' = Outcome("report", "error", NoReport)
                /\ run' = Raised(run, "generate_daily_report", "error")
           ELSE /\ \E top \in DeptQueryResults(dep) :
                      result' = Outcome("report", "ok", Report(fin, top, s, e, today))
                /\ run' = Returned(run, "generate_daily_report")
        /\ UNCHANGED <<stored, today, call>>

\* with open(auto_report_path, 'w') as f: f.write(auto_report)
WriteReport(outcome) ==
    /\ run.at = "write_report"
    /\ run' = IF outcome = "ok" THEN Returned(run, "write_report")
              ELSE Raised(run, "write_report", outcome)
    /\ UNCHANGED <<stored, today, result, call>>

\* finally: self.db_manager.disconnect(), which closes self.connection if
\* there is one; the server discards what the transaction had not committed.
DisconnectRun ==
    /\ run.at = "disconnect"
    /\ run' = [run EXCEPT !.trace = Append(@, Event("disconnect", "ok")),
                          !.open  = @ \ {"connection"},
                          !.at    = "done"]
    /\ uncommitted' = NoRows
    /\ UNCHANGED <<financial_summary, department_summary, report_log, today, result, call>>

NextRun ==
    \/ Tick
    \/ \E use_database \in BOOLEAN : StartRun(use_database)
    \/ \E data \in PipelineData, outcome \in Outcomes : LoadData(data, outcome)
    \/ \E outcome \in Outcomes : ProcessData(outcome)
    \/ \E outcome \in Outcomes : CreateVisualizations(outcome)
    \/ \E outcome \in Outcomes : GenerateReports(outcome)
    \/ \E outcome \in ConnectOutcomes : CreateDatabase(outcome)
    \/ \E outcome \in ConnectOutcomes : Connect(outcome)
    \/ \E outcome \in Outcomes : CreateTables(outcome)
    \/ \E fails \in BOOLEAN, step \in ErrorSteps : InsertFinancialSummary(fails, step)
    \/ \E fails \in BOOLEAN, step \in ErrorSteps : InsertDepartmentSummary(fails, step)
    \/ \E fails \in BOOLEAN : GenerateDailyReport(fails)
    \/ \E outcome \in Outcomes : WriteReport(outcome)
    \/ DisconnectRun

SpecRun == Init /\ [][NextRun]_vars

(***************************************************************************)
(* Vocabulary of the properties.                                           *)
(***************************************************************************)
RECURSIVE SumAt(_, _, _)
SumAt(table, key, idx) ==
    IF idx = {} THEN 0
    ELSE LET i == CHOOSE x \in idx : TRUE
         IN  table[i][key] + SumAt(table, key, idx \ {i})

ReportReturned == result.op = "report" /\ result.status = "ok"
PeriodStart == result.report.report_period[1]
PeriodEnd == result.report.report_period[2]

\* ids of the stored rows a report over the returned period is about
FinInPeriod ==
    {i \in 1..Len(financial_summary) :
        /\ financial_summary[i].report_date >= PeriodStart
        /\ financial_summary[i].report_date <= PeriodEnd}
DeptInPeriod ==
    {i \in 1..Len(department_summary) :
        /\ department_summary[i].report_date >= PeriodStart
        /\ department_summary[i].report_date <= PeriodEnd}

LossRows == {i \in FinInPeriod : financial_summary[i].profit < 0}
SlowRows == {i \in FinInPeriod : /\ financial_summary[i].efficiency_score < 10000
                                 /\ financial_summary[i].total_hours > 0}
AlertsOfType(t) ==
    {i \in 1..Len(result.report.alerts) : result.report.alerts[i].type = t}

\* the stored form of a run's batch sits in the table, row after row
Holds(table, data) ==
    \E k \in 0..(Len(table) - Len(data)) : SubSeq(table, k + 1, k + Len(data)) = data

OneRowPerProject(table) ==
    \A i, j \in 1..Len(table) :
        (/\ table[i].report_date = table[j].report_date
         /\ table[i].project_code = table[j].project_code) => i = j

OneRowPerDepartment(table) ==
    \A i, j \in 1..Len(table) :
        (/\ table[i].report_date = table[j].report_date
         /\ table[i].department_name = table[j].department_name) => i = j

(***************************************************************************)
(* C1.  A store is atomic across both relations: a store that fails at any *)
(* point leaves neither financial nor department rows of that store        *)
(* visible, and a store that succeeds leaves all rows of both sets visible.*)
(***************************************************************************)
C1_StoreAtomic ==
    [][\A batch \in Runs, nan_as \in NanRenderings, fails_at \in FailurePoints,
          step \in ErrorSteps :
          StoreSummaries(batch, nan_as, fails_at, step) =>
             IF result'.status = "error"
             THEN /\ financial_summary' = financial_summary
                  /\ department_summary' = department_summary
             ELSE /\ financial_summary' =
                        financial_summary \o FinancialData(batch.financial_summary_df, today)
                  /\ department_summary' =
                        department_summary \o DepartmentData(batch.department_summary_df, today)]_vars

(***************************************************************************)
(* C2.  Storing the same batch for the same report date a second time is   *)
(* idempotent in effect: the second store is rejected with an error, or it *)
(* leaves one row per (report_date, project_code) and per (report_date,    *)
(* department_name).                                                       *)
(***************************************************************************)
C2_SecondStoreIdempotent ==
    [][\A batch \in Runs, nan_as \in NanRenderings, fails_at \in FailurePoints,
          step \in ErrorSteps :
          (/\ StoreSummaries(batch, nan_as, fails_at, step)
           /\ Holds(financial_summary, FinancialData(batch.financial_summary_df, today))
           /\ Holds(department_summary, DepartmentData(batch.department_summary_df, today)))
          => \/ /\ result'.status = "error"
                /\ financial_summary' = financial_summary
                /\ department_summary' = department_summary
             \/ /\ OneRowPerProject(financial_summary')
                /\ OneRowPerDepartment(department_summary')]_vars

(***************************************************************************)
(* C3.  In every reachable state the financial relation holds at most one  *)
(* row per (report_date, project_code) and the department relation at most *)
(* one row per (report_date, department_name).                             *)
(***************************************************************************)
C3_UniqueKeys ==
    /\ OneRowPerProject(financial_summary)
    /\ OneRowPerDepartment(department_summary)

(***************************************************************************)
(* C4.  Every persisted financial row has total_cost = purchase_cost +     *)
(* labor_cost and profit = contract_price - total_cost, exactly.           *)
(***************************************************************************)
C4_DerivedFieldsExact ==
    \A i \in 1..Len(financial_summary) :
        LET r == financial_summary[i]
        IN  /\ r.total_cost = r.purchase_cost + r.labor_cost
            /\ r.profit = r.contract_price - r.total_cost

RECURSIVE SumCounts(_, _)
SumCounts(breakdown, keys) ==
    IF keys = {} THEN 0
    ELSE LET k == CHOOSE x \in keys : TRUE
         IN  breakdown[k].count + SumCounts(breakdown, keys \ {k})

C6_RangeInclusive ==
    ReportReturned =>
        LET rep == result.report
        IN  /\ SumCounts(rep.project_types, DOMAIN rep.project_types)
                  = Cardinality(FinInPeriod)
            /\ rep.summary.total_revenue
                  = SumAt(financial_summary, "contract_price", FinInPeriod)
            /\ rep.summary.total_hours
                  = SumAt(financial_summary, "total_hours", FinInPeriod)
            /\ \A k \in 1..Len(rep.top_departments) :
                  rep.top_departments[k].total_hours
                     = SumAt(department_summary, "total_hours",
                             {i \in DeptInPeriod :
                                department_summary[i].department_name
                                   = rep.top_departments[k].department})
            /\ Len(rep.top_departments) < TOP_LIMIT =>
                  {rep.top_departments[k].department :
                      k \in 1..Len(rep.top_departments)}
                     = {department_summary[i].department_name : i \in DeptInPeriod}

\* a one-day range with a stored row on that day and a stored row outside it
C6_Witness ==
    /\ ReportReturned
    /\ PeriodStart = PeriodEnd
    /\ \E i \in 1..Len(financial_summary) : financial_summary[i].report_date = PeriodStart
    /\ \E i \in 1..Len(financial_summary) : financial_summary[i].report_date # PeriodStart
    /\ \E i \in 1..Len(department_summary) : department_summary[i].report_date # PeriodStart

(***************************************************************************)
(* C7.  A report carries a loss_making_projects alert of severity high     *)
(* exactly when some in-range financial row has profit < 0; its count is   *)
(* the number of such rows and its amount the absolute value of the sum of *)
(* their profits.                                                          *)
(***************************************************************************)
C7_LossAlert ==
    ReportReturned =>
        /\ (AlertsOfType("loss_making_projects") # {}) <=> (LossRows # {})
        /\ \A i \in AlertsOfType("loss_making_projects") :
              LET a == result.report.alerts[i]
              IN  /\ a.severity = "high"
                  /\ a.count = Cardinality(LossRows)
                  /\ a.amount = Abs(SumAt(financial_summary, "profit", LossRows))

\* two loss-making rows in range, alert raised
C7_Witness ==
    /\ ReportReturned
    /\ Cardinality(LossRows) = 2
    /\ AlertsOfType("loss_making_projects") # {}

(***************************************************************************)
(* C8.  A report carries a low_efficiency alert of severity medium exactly *)
(* when some in-range financial row has efficiency_score < 100 and         *)
(* total_hours > 0; its count is the number of such rows, and rows with    *)
(* total_hours = 0 never count.                                            *)
(***************************************************************************)
C8_LowEfficiencyAlert ==
    ReportReturned =>
        /\ (AlertsOfType("low_efficiency") # {}) <=> (SlowRows # {})
        /\ \A i \in AlertsOfType("low_efficiency") :
              LET a == result.report.alerts[i]
              IN  /\ a.severity = "medium"
                  /\ a.count = Cardinality(SlowRows)

\* a qualifying row and a zero-hour row below the cutoff, both in range
C8_Witness ==
    /\ ReportReturned
    /\ SlowRows # {}
    /\ \E i \in FinInPeriod : /\ financial_summary[i].total_hours = 0
                              /\ financial_summary[i].efficiency_score < 10000
    /\ AlertsOfType("low_efficiency") # {}

(***************************************************************************)
(* C9.  Both alert rules run on every report, independently: the alerts    *)
(* list is the loss alert (if its condition holds) followed by the         *)
(* low-efficiency alert (if its condition holds), so two entries in that   *)
(* order when both hold, and never two alerts of one type.                 *)
(***************************************************************************)
C9_AlertsIndependent ==
    ReportReturned =>
        Column(result.report.alerts, "type") =
            (IF LossRows # {} THEN <<"loss_making_projects">> ELSE <<>>)
            \o (IF SlowRows # {} THEN <<"low_efficiency">> ELSE <<>>)

\* both conditions hold, on different numbers of rows
C9_Witness ==
    /\ ReportReturned
    /\ Len(result.report.alerts) = 2
    /\ Cardinality(LossRows) # Cardinality(SlowRows)

(***************************************************************************)
(* C10.  The status breakdown has an entry for status s exactly when some  *)
(* in-range row has project_type GS and status s other than Unknown; its   *)
(* count is the number of such rows.  ISS rows and GS rows with status     *)
(* Unknown contribute to no entry.                                         *)
(***************************************************************************)
StatusRows(s) ==
    {i \in FinInPeriod : /\ financial_summary[i].project_type = "GS"
                         /\ financial_summary[i].status = s}

C10_StatusBreakdown ==
    ReportReturned =>
        LET breakdown == result.report.project_status
            statuses  == {financial_summary[i].status : i \in FinInPeriod}
        IN  /\ DOMAIN breakdown = {s \in statuses \ {"Unknown"} : StatusRows(s) # {}}
            /\ \A s \in DOMAIN breakdown : breakdown[s].count = Cardinality(StatusRows(s))

\* a GS Success row counted, next to in-range ISS rows with status Success
\* and with status Unknown that are left out
C10_Witness ==
    /\ ReportReturned
    /\ "Success" \in DOMAIN result.report.project_status
    /\ \E i \in FinInPeriod : /\ financial_summary[i].project_type = "ISS"
                              /\ financial_summary[i].status = "Success"
    /\ \E i \in FinInPeriod : /\ financial_summary[i].project_type = "ISS"
                              /\ financial_summary[i].status = "Unknown"

(***************************************************************************)
(* C11.  In the summary of a report over [d1, d2], total_projects is the   *)
(* number of distinct project codes among the in-range financial rows, and *)
(* total_revenue, total_cost, total_profit and total_hours are the sums of *)
(* contract_price, total_cost, profit and total_hours over those rows.     *)
(***************************************************************************)
C11_SummaryTotals ==
    ReportReturned =>
        LET s == result.report.summary
        IN  /\ s.total_projects
                  = Cardinality({financial_summary[i].project_code : i \in FinInPeriod})
            /\ s.total_revenue = SumAt(financial_summary, "contract_price", FinInPeriod)
            /\ s.total_cost    = SumAt(financial_summary, "total_cost", FinInPeriod)
            /\ s.total_profit  = SumAt(financial_summary, "profit", FinInPeriod)
            /\ s.total_hours   = SumAt(financial_summary, "total_hours", FinInPeriod)

\* a report over three in-range rows of two projects, one stored twice
C11_Witness ==
    /\ ReportReturned
    /\ Cardinality(FinInPeriod) = 3
    /\ result.report.summary.total_projects = 2
    /\ result.report.summary.total_profit # 0

(***************************************************************************)
(* C12.  Every mean profit margin of a report (overall, per project type,  *)
(* per status) is the mean over the in-range rows of its group that have a *)
(* profit_margin: rows whose profit_margin is NULL (contract_price = 0) do *)
(* not enter it, neither as a value nor in the divisor.                    *)
(***************************************************************************)
WithMargin(idx) == {i \in idx : financial_summary[i].profit_margin # Null}
MeanMargin(idx) ==
    RoundDiv(SumAt(financial_summary, "profit_margin", WithMargin(idx)) * 10000,
             Cardinality(WithMargin(idx)))
TypeRows(t) == {i \in FinInPeriod : financial_summary[i].project_type = t}

C12_MeansSkipNull ==
    ReportReturned =>
        LET rep == result.report
        IN  /\ WithMargin(FinInPeriod) # {} =>
                  rep.summary.avg_profit_margin = MeanMargin(FinInPeriod)
            /\ \A t \in DOMAIN rep.project_types :
                  WithMargin(TypeRows(t)) # {} =>
                     rep.project_types[t].avg_margin = MeanMargin(TypeRows(t))
            /\ \A s \in DOMAIN rep.project_status :
                  WithMargin(StatusRows(s)) # {} =>
                     rep.project_status[s].avg_margin = MeanMargin(StatusRows(s))

\* a report whose in-range rows hold, in one type and in one status, a row
\* with a margin next to a row without
C12_Witness ==
    /\ ReportReturned
    /\ \E t \in DOMAIN result.report.project_types :
          /\ WithMargin(TypeRows(t)) # TypeRows(t)
          /\ result.report.project_types[t].avg_margin # 0
    /\ \E s \in DOMAIN result.report.project_status :
          /\ WithMargin(StatusRows(s)) # StatusRows(s)
          /\ result.report.project_status[s].avg_margin # 0
    /\ result.report.summary.avg_profit_margin # 0

(***************************************************************************)
(* C13.  The per-type breakdown has one entry for each project_type that   *)
(* occurs among the in-range rows and no other; the entry's count is the   *)
(* number of in-range rows of that type and its total_profit the sum of    *)
(* their profits, so that every in-range row is counted under exactly one  *)
(* type.                                                                   *)
(***************************************************************************)
C13_TypeBreakdown ==
    ReportReturned =>
        LET types == result.report.project_types
        IN  /\ DOMAIN types = {financial_summary[i].project_type : i \in FinInPeriod}
            /\ \A t \in DOMAIN types :
                  /\ types[t].count = Cardinality(TypeRows(t))
                  /\ types[t].total_profit
                        = SumAt(financial_summary, "profit", TypeRows(t))
            /\ \A i \in FinInPeriod :
                  Cardinality({t \in DOMAIN types : i \in TypeRows(t)}) = 1

\* a report over rows of both types, one type with more rows than the other
C13_Witness ==
    /\ ReportReturned
    /\ DOMAIN result.report.project_types = {"GS", "ISS"}
    /\ result.report.project_types["ISS"].count = 2
    /\ result.report.project_types["GS"].count = 1
    /\ result.report.project_types["GS"].total_profit
          # result.report.project_types["ISS"].total_profit

(***************************************************************************)
(* C14.  The top-departments list of a report holds at most 10             *)
(* departments, each at most once and each a department of the in-range    *)
(* rows with its summed total_hours; the list is in non-increasing order   *)
(* of those sums, and every department of the in-range rows that is left   *)
(* out has a sum no greater than that of every listed department.          *)
(***************************************************************************)
DeptHours(d) ==
    SumAt(department_summary, "total_hours",
          {i \in DeptInPeriod : department_summary[i].department_name = d})
DeptsInPeriod == {department_summary[i].department_name : i \in DeptInPeriod}
Listed == {result.report.top_departments[k].department :
              k \in 1..Len(result.report.top_departments)}

C14_TopDepartments ==
    ReportReturned =>
        LET top == result.report.top_departments
        IN  /\ Len(top) <= 10
            /\ \A j, k \in 1..Len(top) : j # k => top[j].department # top[k].department
            /\ Listed \subseteq DeptsInPeriod
            /\ \A k \in 1..Len(top) : top[k].total_hours = DeptHours(top[k].department)
            /\ \A k \in 1..(Len(top) - 1) : top[k].total_hours >= top[k + 1].total_hours
            /\ \A d \in DeptsInPeriod \ Listed :
                  \A k \in 1..Len(top) : DeptHours(d) <= top[k].total_hours

\* a report over eleven departments: ten listed with differing sums, and the
\* one left out has as many hours as the last one listed
C14_Witness ==
    /\ ReportReturned
    /\ Len(result.report.top_departments) = 10
    /\ result.report.top_departments[1].total_hours
          > result.report.top_departments[10].total_hours
    /\ \E d \in DeptsInPeriod \ Listed :
          DeptHours(d) = result.report.top_departments[10].total_hours

(***************************************************************************)
(* C15.  A report call returns a report only when all six queries have     *)
(* succeeded: a call in which a query fails gives its caller no report at  *)
(* all, not the part filled so far, and a report that is returned has      *)
(* every section, the summary with all its totals.                         *)
(***************************************************************************)
ReportKeys == {"report_period", "generated_at", "summary", "trends", "project_types",
               "project_status", "top_departments", "alerts"}
SummaryKeys == {"total_projects", "total_revenue", "total_cost", "total_profit",
                "avg_profit_margin", "total_hours"}

C15_NoPartialReport ==
    /\ (result.op = "report" /\ result.status # "ok") => result.report = NoReport
    /\ ReportReturned =>
          /\ DOMAIN result.report = ReportKeys
          /\ DOMAIN result.report.summary = SummaryKeys

\* a call that failed after its first query had read stored rows
C15_Witness ==
    /\ result.op = "report" /\ result.status = "error"
    /\ pc = 0
    /\ read_view # NoView
    /\ Len(read_view[1]) > 0

(***************************************************************************)
(* C16.  A report call changes none of the three tables, whether it        *)
(* returns a report or fails: financial_summary, department_summary and    *)
(* report_log are after the call what they were before it.                 *)
(***************************************************************************)
C16_ReportReadOnly ==
    [][result'.op = "report" =>
          UNCHANGED <<financial_summary, department_summary, report_log>>]_vars

\* a report returned from tables that all hold rows
C16_Witness ==
    /\ ReportReturned
    /\ Len(financial_summary) > 0
    /\ Len(department_summary) > 0
    /\ Len(report_log) > 0

(***************************************************************************)
(* C17.  A report call is stateless and deterministic: a call that follows *)
(* a returned report for the same range, the stored rows being the same,   *)
(* returns the same summary, the same two breakdowns, the same             *)
(* top-departments list in the same order and the same alerts; only        *)
(* generated_at may differ.                                                *)
(***************************************************************************)
C17_Deterministic ==
    [][(/\ ReportReturned
        /\ ReportReturned'
        /\ result'.report.report_period = result.report.report_period
        /\ UNCHANGED <<financial_summary, department_summary>>)
          => /\ result'.report.summary = result.report.summary
             /\ result'.report.project_types = result.report.project_types
             /\ result'.report.project_status = result.report.project_status
             /\ result'.report.top_departments = result.report.top_departments
             /\ result'.report.alerts = result.report.alerts]_vars

(***************************************************************************)
(* C18.  A report call reads in one transaction: every section it has      *)
(* filled, and every section of the report it returns, is computed from    *)
(* the rows of one and the same committed state of the tables, also when   *)
(* other runs commit stores between its queries; and as long as the stores *)
(* committed since that state are for dates outside the range, the         *)
(* sections are those of the tables as they are now.                       *)
(***************************************************************************)
AlertsOf(rep, t) == SelectSeq(rep.alerts, LAMBDA a : a.type = t)

SectionFrom(rep, q, fin, dep) ==
    CASE q = "summary"              -> rep.summary = SummaryQuery(fin)
      [] q = "project_types"        -> rep.project_types = TypeQuery(fin)
      [] q = "project_status"       -> rep.project_status = StatusQuery(fin)
      [] q = "top_departments"      -> rep.top_departments \in DeptQueryResults(dep)
      [] q = "loss_making_projects" -> AlertsOf(rep, q) = LossAlert(fin)
      [] q = "low_efficiency"       -> AlertsOf(rep, q) = LowEfficiencyAlert(fin)

\* the report being filled or, between calls, the one last returned
CurrentReport == IF pc > 0 THEN report ELSE result.report
QueriesDone == IF pc > 0 THEN pc - 1 ELSE Len(Queries)
ViewRows(k) ==
    InRange(read_view[k], CurrentReport.report_period[1], CurrentReport.report_period[2])
StoredRows(table) ==
    InRange(table, CurrentReport.report_period[1], CurrentReport.report_period[2])

C19_ZeroContractStored ==
    [][\A batch \in Runs, nan_as \in NanRenderings :
          (/\ StoreSummaries(batch, nan_as, "nowhere", "executemany")
           /\ \E i \in 1..Len(batch.financial_summary_df) :
                 batch.financial_summary_df[i].ContractPrice = 0)
            => LET df == batch.financial_summary_df
                   n  == Len(financial_summary)
               IN  /\ result'.status = "ok"
                   /\ Len(financial_summary') = n + Len(df)
                   /\ \A i \in 1..n : financial_summary'[i] = financial_summary[i]
                   /\ \A i \in 1..Len(df) :
                         /\ financial_summary'[n + i].project_code = df[i].ProjectCode
                         /\ df[i].ContractPrice = 0 =>
                               financial_summary'[n + i].profit_margin = Null]_vars

(***************************************************************************)
(* C20.  End to end: when the tables hold nothing but the two rows stored  *)
(* for one date, a GS project (contract 1,000,000, total cost 700,000,     *)
(* 200 hours, status Success) and an ISS project (contract 500,000, total  *)
(* cost 600,000, 100 hours), the report over that single date has          *)
(* total_projects = 2 and total_profit = 200,000, exactly one loss alert,  *)
(* with count 1 and amount 100,000, and a status breakdown whose only      *)
(* entry is Success with count 1.  Amounts are in cents.                   *)
(***************************************************************************)
ScenarioStored ==
    /\ Len(financial_summary) = 2
    /\ financial_summary[1].project_type = "GS"
    /\ financial_summary[1].status = "Success"
    /\ financial_summary[1].contract_price = 100000000
    /\ financial_summary[1].total_cost = 70000000
    /\ financial_summary[1].total_hours = 200
    /\ financial_summary[2].project_type = "ISS"
    /\ financial_summary[2].contract_price = 50000000
    /\ financial_summary[2].total_cost = 60000000
    /\ financial_summary[2].total_hours = 100
    /\ financial_summary[1].project_code # financial_summary[2].project_code
    /\ financial_summary[1].report_date = financial_summary[2].report_date

C20_EndToEnd ==
    (/\ ScenarioStored
     /\ ReportReturned
     /\ PeriodStart = financial_summary[1].report_date
     /\ PeriodEnd = financial_summary[1].report_date)
      => /\ result.report.summary.total_projects = 2
         /\ result.report.summary.total_profit = 20000000
         /\ Len(AlertsOf(result.report, "loss_making_projects")) = 1
         /\ AlertsOf(result.report, "loss_making_projects")[1].count = 1
         /\ AlertsOf(result.report, "loss_making_projects")[1].amount = 10000000
         /\ DOMAIN result.report.project_status = {"Success"}
         /\ result.report.project_status["Success"].count = 1

\* the report over the one date of the two stored rows
C20_Witness ==
    /\ ScenarioStored
    /\ ReportReturned
    /\ PeriodStart = financial_summary[1].report_date
    /\ PeriodEnd = financial_summary[1].report_date
    /\ result.report.summary.total_revenue = 150000000

(***************************************************************************)
(* C21.  The alert thresholds are configuration: whatever efficiency       *)
(* cutoff T and loss-count trigger K a deployment supplies, a returned     *)
(* report carries the low_efficiency alert exactly when some in-range row  *)
(* with hours has efficiency_score below T, and the loss_making_projects   *)
(* alert exactly when more than K in-range rows have a negative profit.    *)
(***************************************************************************)
\* Thresholds a deployment may supply: the cutoff in cents per hour, the
\* trigger a number of rows.
SuppliedCutoffs == {10000, 20000}
SuppliedTriggers == {0, 1}

C21_ThresholdsConfigurable ==
    \A T \in SuppliedCutoffs, K \in SuppliedTriggers :
        ReportReturned =>
            /\ AlertsOf(result.report, "low_efficiency") # <<>>
                  <=> \E i \in FinInPeriod :
                         /\ financial_summary[i].efficiency_score < T
                         /\ financial_summary[i].total_hours > 0
            /\ AlertsOf(result.report, "loss_making_projects") # <<>>
                  <=> Cardinality(LossRows) > K

(***************************************************************************)
(* C22.  Every row of financial_summary whose project_type is ISS has      *)
(* status Unknown, whatever status the stored batch carried for it.        *)
(***************************************************************************)
C22_IssAlwaysUnknown ==
    \A i \in 1..Len(financial_summary) :
        financial_summary[i].project_type = "ISS" => financial_summary[i].status = "Unknown"


(***************************************************************************)
(* C23.  A connection failure aborts the run and leaves no partial state:  *)
(* once connecting to the storage has failed, in connect or in             *)
(* create_database, no step of that run changes financial_summary,         *)
(* department_summary or report_log, the run has made no insert and makes  *)
(* none, nothing but the disconnect follows the failure, and the run ends  *)
(* with the exception on its way to the caller.                            *)
(***************************************************************************)
ConnectionFailed(r) ==
    \E i \in 1..Len(r.trace) : r.trace[i].outcome = "connection failed"

C23_ConnectionFailureAborts ==
    [][ConnectionFailed(run') =>
          LET tr == run'.trace
          IN  /\ UNCHANGED <<financial_summary, department_summary, report_log>>
              /\ \A i \in 1..Len(tr) :
                     tr[i].step \notin {"insert_financial_summary",
                                       "insert_department_summary"}
              /\ \A i, j \in 1..Len(tr) :
                     (tr[i].outcome = "connection failed" /\ i < j)
                         => tr[j].step = "disconnect"
              /\ run'.at \in {"disconnect", "done"}
              /\ run'.at = "done" => run'.raised]_vars

\* a run has ended after its connect failed, the database having been
\* created; the tables hold the rows of an earlier run
C23_Witness ==
    /\ run.at = "done"
    /\ \E i \in 1..Len(run.trace) : run.trace[i] = Event("connect", "connection failed")
    /\ Len(financial_summary) > 0
    /\ Len(department_summary) > 0

(***************************************************************************)
(* C24.  Every returned report, whatever rows are stored and whatever the  *)
(* range, empty ranges included, has the period naming both dates, the     *)
(* generation time, the summary with its six totals (each a number), the   *)
(* per-type breakdown, the status breakdown, the list of top departments   *)
(* and the list of alerts, every entry of them with all its fields.        *)
(***************************************************************************)
SectionKeys == {"report_period", "generated_at", "summary", "project_types",
                "project_status", "top_departments", "alerts"}
IsList(s) == DOMAIN s = 1..Len(s)

C24_ReportComplete ==
    ReportReturned =>
        LET rep == result.report
        IN  /\ SectionKeys \subseteq DOMAIN rep
            /\ rep.report_period \in Dates \X Dates
            /\ rep.generated_at \in Dates
            /\ DOMAIN rep.summary = SummaryKeys
            /\ \A k \in SummaryKeys : rep.summary[k] \in Int /\ rep.summary[k] # Null
            /\ \A t \in DOMAIN rep.project_types :
                   DOMAIN rep.project_types[t] = {"count", "total_profit", "avg_margin"}
            /\ \A s \in DOMAIN rep.project_status :
                   DOMAIN rep.project_status[s] = {"count", "avg_margin"}
            /\ IsList(rep.top_departments)
            /\ \A i \in 1..Len(rep.top_departments) :
                   DOMAIN rep.top_departments[i] =
                       {"department", "total_hours", "total_cost", "avg_projects"}
            /\ IsList(rep.alerts)
            /\ \A i \in 1..Len(rep.alerts) :
                   {"type", "severity"} \subseteq DOMAIN rep.alerts[i]

\* a report over a range that holds financial rows and no department row
C24_Witness ==
    /\ ReportReturned
    /\ FinInPeriod # {}
    /\ DeptInPeriod = {}
    /\ result.report.top_departments = <<>>
    /\ DOMAIN result.report.project_types # {}

(***************************************************************************)
(* C25.  A failed insert leaves its table as it was: whether the call      *)
(* raises while preparing the rows, in executemany or in commit, a failed  *)
(* insert_financial_summary leaves financial_summary unchanged and a       *)
(* failed insert_department_summary leaves department_summary unchanged;   *)
(* and no later commit on the connection shows a row of a failed batch:    *)
(* rows come into a table only as the whole batch of an insert that        *)
(* succeeded, in the step of that insert.                                  *)
(***************************************************************************)
C25_FailedInsertLeavesTable ==
    [][/\ result'.raised_in = "insert_financial_summary" =>
             /\ financial_summary' = financial_summary
             /\ department_summary' = department_summary
       /\ result'.raised_in = "insert_department_summary" =>
             department_summary' = department_summary
       /\ financial_summary' # financial_summary =>
             /\ result'.op = "store"
             /\ \E batch \in Runs :
                   financial_summary' =
                       financial_summary \o FinancialData(batch.financial_summary_df, today)
       /\ department_summary' # department_summary =>
             /\ result'.op = "store" /\ result'.status = "ok"
             /\ \E batch \in Runs :
                   department_summary' =
                       department_summary \o DepartmentData(batch.department_summary_df, today)
      ]_vars

\* a later call has committed on the connection after an insert of department
\* rows had failed: the table has no row for the date of the batch
C25_Witness ==
    /\ result.op = "log" /\ result.status = "ok"
    /\ \E i \in 1..Len(financial_summary) :
          /\ financial_summary[i].total_hours > 0
          /\ \A j \in 1..Len(department_summary) :
                 department_summary[j].report_date # financial_summary[i].report_date

(***************************************************************************)
(* C26.  The steps of a run with the database enabled happen in order:     *)
(* the data is loaded before the metrics are computed, the metrics are     *)
(* computed before anything is inserted, and the automated report is       *)
(* generated, and written, only after both inserts of the run have         *)
(* committed, the rows of both batches being in the tables under the run's *)
(* report date; when an insert has failed, no automated report is          *)
(* generated or written.                                                   *)
(***************************************************************************)
Inserts == {"insert_financial_summary", "insert_department_summary"}
Reporting == {"generate_daily_report", "write_report"}

\* step s has returned before the j-th event
ReturnedBefore(tr, s, j) == \E i \in 1..(j - 1) : tr[i] = Event(s, "ok")

C26_StepsInOrder ==
    LET tr == run.trace
    IN  /\ \A j \in 1..Len(tr) :
              /\ tr[j].step = "_process_data" => ReturnedBefore(tr, "_load_data", j)
              /\ tr[j].step \in Inserts => ReturnedBefore(tr, "_process_data", j)
              /\ tr[j].step \in Reporting =>
                     \A s \in Inserts : ReturnedBefore(tr, s, j)
        /\ (\E i \in 1..Len(tr) : tr[i].step \in Inserts /\ tr[i].outcome # "ok")
              => \A j \in 1..Len(tr) : tr[j].step \notin Reporting
        /\ (\E j \in 1..Len(tr) : tr[j].step \in Reporting) =>
              /\ Holds(financial_summary,
                       FinancialData(run.batch[1].financial_summary_df, run.report_date))
              /\ Holds(department_summary,
                       DepartmentData(run.batch[1].department_summary_df, run.report_date))

\* a run with the database enabled has gone through all its steps
C26_Witness ==
    /\ run.at = "done" /\ ~run.raised /\ run.use_database
    /\ \E j \in 1..Len(run.trace) : run.trace[j] = Event("write_report", "ok")

(***************************************************************************)
(* C27.  The storage connection is always released: when a run that has    *)
(* entered _database_operations has ended, by return or by an exception of *)
(* any step, disconnect has been called and no connection that was opened  *)
(* is still open; and no database operation follows the disconnect.        *)
(***************************************************************************)
C27_ConnectionReleased ==
    LET tr == run.trace
    IN  /\ (run.at = "done" /\ \E i \in 1..Len(tr) : tr[i].step \in DatabaseSteps) =>
              /\ \E i \in 1..Len(tr) : tr[i].step = "disconnect"
              /\ run.open = {}
        /\ \A i, j \in 1..Len(tr) :
              (tr[i].step = "disconnect" /\ i < j) => tr[j].step \notin DatabaseSteps

(***************************************************************************)
(* C28.  A report over a range in which no row is stored succeeds: the     *)
(* call can return, and the report it returns has every total at zero,     *)
(* both breakdowns empty, no top department and no alert.                  *)
(***************************************************************************)
NoRowIn(table, r) ==
    InRange(table, StartDate(r[1], today), EndDate(r[2], today)) = <<>>

C28_EmptyRangeReport ==
    /\ \A r \in Ranges :
          (NoRowIn(financial_summary, r) /\ NoRowIn(department_summary, r))
              => ENABLED GenerateAutomatedReport(r[1], r[2])
    /\ (ReportReturned /\ FinInPeriod = {} /\ DeptInPeriod = {}) =>
          /\ \A k \in SummaryKeys : result.report.summary[k] = 0
          /\ DOMAIN result.report.project_types = {}
          /\ DOMAIN result.report.project_status = {}
          /\ result.report.top_departments = <<>>
          /\ result.report.alerts = <<>>

\* a report over a range without rows, both tables holding rows of other days
C28_Witness ==
    /\ ReportReturned
    /\ FinInPeriod = {} /\ DeptInPeriod = {}
    /\ Len(financial_summary) > 0 /\ Len(department_summary) > 0

(***************************************************************************)
(* C29.  The sections of a returned report agree: the total_profit of the  *)
(* per-type entries add up to the summary's total_profit, their counts add *)
(* up to the number of in-range rows, and total_projects is at most that   *)
(* number, equal to it exactly when no project code is on two in-range     *)
(* rows.                                                                   *)
(***************************************************************************)
RECURSIVE SumOver(_, _, _)
SumOver(f, keys, field) ==
    IF keys = {} THEN 0
    ELSE LET k == CHOOSE x \in keys : TRUE
         IN  f[k][field] + SumOver(f, keys \ {k}, field)

CodeTwice ==
    \E i, j \in FinInPeriod :
        i # j /\ financial_summary[i].project_code = financial_summary[j].project_code

\* addition of floats: the exact sum, rounded
Carry(a, b, i) ==
    IF \E k \in (i + 1)..Len(a) :
          a[k] + b[k] = 2 /\ \A m \in (i + 1)..(k - 1) : a[m] + b[m] = 1
    THEN 1 ELSE 0
AddDigits(a, b) == [i \in 1..Len(a) |-> (a[i] + b[i] + Carry(a, b, i)) % 2]

Borrow(a, b, i) ==
    IF \E k \in (i + 1)..Len(a) :
          a[k] < b[k] /\ \A m \in (i + 1)..(k - 1) : a[m] = b[m]
    THEN 1 ELSE 0
SubDigits(a, b) == [i \in 1..Len(a) |-> (a[i] - b[i] - Borrow(a, b, i)) % 2]

Below(a, b) == \E i \in 1..Len(a) : a[i] < b[i] /\ \A j \in 1..(i - 1) : a[j] = b[j]

FloatAdd(x, y) ==
    IF x.neg = y.neg
    THEN [neg |-> x.neg, digits |-> RoundNearestEven(AddDigits(x.digits, y.digits), FALSE)]
    ELSE IF Below(x.digits, y.digits)
    THEN [neg |-> y.neg, digits |-> RoundNearestEven(SubDigits(y.digits, x.digits), FALSE)]
    ELSE [neg |-> x.neg, digits |-> RoundNearestEven(SubDigits(x.digits, y.digits), FALSE)]

FloatEqual(x, y) ==
    /\ x.digits = y.digits
    /\ x.neg = y.neg \/ Lead(x.digits) = 0

\* sum(entry['total_profit'] for entry in breakdown.values())
RECURSIVE FloatSumOver(_, _, _)
FloatSumOver(f, keys, field) ==
    IF keys = {} THEN ToFloat(0)
    ELSE LET k == CHOOSE x \in keys : TRUE
         IN  FloatAdd(FloatSumOver(f, keys \ {k}, field), ToFloat(f[k][field]))

\* The claim as stated, on the numbers the report holds: total_profit of an
\* entry is float(row[2]), total_profit of the summary float(result[3]).
C29_SectionsAgreeAsFloats ==
    ReportReturned =>
        LET rep   == result.report
            types == DOMAIN rep.project_types
        IN  /\ FloatEqual(FloatSumOver(rep.project_types, types, "total_profit"),
                          ToFloat(rep.summary.total_profit))
            /\ SumOver(rep.project_types, types, "count") = Cardinality(FinInPeriod)
            /\ rep.summary.total_projects <= Cardinality(FinInPeriod)
            /\ rep.summary.total_projects = Cardinality(FinInPeriod) <=> ~CodeTwice

\* Amended: the amounts agree to the cent, which is what the sums of the
\* stored decimals give.
C29_SectionsAgree ==
    ReportReturned =>
        LET rep   == result.report
            types == DOMAIN rep.project_types
        IN  /\ SumOver(rep.project_types, types, "total_profit") = rep.summary.total_profit
            /\ SumOver(rep.project_types, types, "count") = Cardinality(FinInPeriod)
            /\ rep.summary.total_projects <= Cardinality(FinInPeriod)
            /\ rep.summary.total_projects = Cardinality(FinInPeriod) <=> ~CodeTwice

\* a report over a range in which one project code is on two rows
C29_Witness ==
    /\ ReportReturned
    /\ CodeTwice
    /\ result.report.summary.total_projects < Cardinality(FinInPeriod)

(***************************************************************************)
(* C30.  A report call succeeds for every content of the tables: from any  *)
(* stored rows and for any range the call can return a report, also when   *)
(* all rows of a project type, or of a status group of GS rows, have a     *)
(* NULL profit_margin.                                                     *)
(***************************************************************************)
C30_ReportAlwaysSucceeds ==
    \A r \in Ranges : ENABLED GenerateAutomatedReport(r[1], r[2])

====
